---- MODULE Spec2Model ----
(***************************************************************************)
(* Viewport rendering, navigation sync and reading-session clock of the    *)
(* PDF reader (components/pdf-viewer.tsx, providers/pdf-provider.tsx and   *)
(* the useReadingStats hook).                                              *)
(*                                                                         *)
(* React state updates and the effects they trigger are committed in the   *)
(* same step as the handler that made them: a handler runs to completion   *)
(* and React flushes the re-render and its effects before any timer or     *)
(* promise continuation of this model can run.  An async function is one   *)
(* step per stretch between two awaits.                                    *)
(*                                                                         *)
(* Scales are in percent (1.5 is 150), times in milliseconds.  The         *)
(* direction of the page-indicator animation is presentational and is not  *)
(* modelled.                                                               *)
(***************************************************************************)
EXTENDS Integers, Sequences, FiniteSets, Bags, TLC

\* ---------------------------------------------------------------- bounds
NumPages == 3        \* pdf.numPages of the open document
RenderSpan == 2      \* pages that come into view in the render specification
MaxProcs == 2        \* renderPage invocations suspended at an await at once
MaxBatch == 2        \* entries in one IntersectionObserver callback
MaxRatio == 2        \* distinct non-zero intersection ratios
ZoomSpan == 1        \* zoom steps above the initial scale that are explored
MaxTimers == 2       \* settle timers pending at once
MaxPersist == 1      \* goToPage persistence requests pending at once
MaxInFlight == 2     \* the same, where only the provider's requests are studied
TickMs == 100        \* granularity of the passage of time
ClockStepMs == 500   \* granularity of the session clock
MaxClockSteps == 3   \* steps of the session clock that are explored
MaxDocs == 2         \* documents in the library
VisitPages == 4      \* pages of the document read without interruption
VisitSteps == 7      \* steps of the session clock in uninterrupted reading

\* ------------------------------------------------------ program constants
InitialScale == 150
ScaleStep == 25
MinScale == 50
MaxScale == 300
DebounceMs == 150
SettleMs == 500
Null == 0

Pages == 1..NumPages
Scales == {s \in MinScale..MaxScale : (s - MinScale) % ScaleStep = 0}

VARIABLES
    \* PdfViewer: render scheduler
    scale,                \* useState(1.5)
    renderedPages,        \* useState<Set<number>>
    renderingPagesRef,    \* pages holding the rendering lock
    renderTasksRef,       \* page -> "none", or the state of the task in the map
    procs,                \* bag of the suspended renderPage invocations
    canvasScale,          \* page -> scale its canvas was last sized for, or Null
    \* PdfViewer: visibility tracking and navigation sync
    visiblePage,
    previousVisiblePage,
    isScrollingRef,       \* the navigation lock
    settleTimers,         \* remaining ms of each pending 500 ms timeout
    debounce,             \* the pending 150 ms timeout of the sync effect
    visibleFor,           \* ms for which visiblePage has held its value
    sinceDelivery,        \* ms since the last onPageChange, up to DebounceMs
    \* PdfProvider
    currentPage,
    persists,             \* goToPage calls awaiting storage.updateLastOpened
    currentDocument,      \* id of the open document, or Null
    \* useReadingStats
    now,                  \* Date.now()
    startTime,
    history,
    isPaused,
    pauseStartRef,
    lastPageParams,
    \* history variables
    lastNav,              \* last handler that ran, with the most visible page
                          \* of an observed batch and the pages it reports as
                          \* intersecting, the highest page a zoom took from
                          \* renderedPages, the page left by a page change
                          \* with the reading of its clock, or the document
                          \* replaced by an open
    pausedMs,             \* time excluded by the resumes of this session
    viewedMs              \* page -> unpaused time of this session during
                          \* which the page was the provider's current page

renderVars == <<scale, renderedPages, renderingPagesRef, renderTasksRef, procs,
                canvasScale>>
navVars == <<visiblePage, previousVisiblePage, isScrollingRef,
             settleTimers, debounce, visibleFor, sinceDelivery>>
providerVars == <<currentPage, persists>>
clockVars == <<currentDocument, now, startTime, history, isPaused, pauseStartRef,
              lastPageParams, pausedMs, viewedMs>>
vars == <<renderVars, navVars, providerVars, clockVars, lastNav>>

Nav(op, page) == [op |-> op, page |-> page, seen |-> {}, ms |-> 0]

Min(a, b) == IF a < b THEN a ELSE b
Max(a, b) == IF a > b THEN a ELSE b

\* ------------------------------------------------------ render scheduler
\* A suspended renderPage invocation: the await it is at, its page, the
\* scale and the pdf of its closure, and whether the RenderTask it created
\* is the one renderTasksRef holds for its page.
Proc(pc, p, sc, reg) ==
    [pc |-> pc, page |-> p, scale |-> sc, registered |-> reg,
     pdf |-> currentDocument]

Add(bag, r) == bag (+) SetToBag({r})
Remove(bag, r) == bag (-) SetToBag({r})

\* The mutable render state a renderPage call reads and writes.
RenderState == [rendered |-> renderedPages, rendering |-> renderingPagesRef,
                tasks |-> renderTasksRef, procs |-> procs, ok |-> TRUE]

\* A new renderPage invocation suspends at its first await.
Suspend(st, pc, p, sc) ==
    IF BagCardinality(st.procs) < MaxProcs
    THEN [st EXCEPT !.procs = Add(@, Proc(pc, p, sc, FALSE))]
    ELSE [st EXCEPT !.ok = FALSE]

\* The invocations whose task renderTasksRef holds for page p (at most one).
Registered(bag, p) == {r \in BagToSet(bag) : r.page = p /\ r.registered}

\* renderTasksRef loses or replaces the entry of page p: the invocation
\* whose task it was runs on, its task no longer in the map.
Unregister(bag, p) ==
    IF Registered(bag, p) = {} THEN bag
    ELSE LET r == CHOOSE x \in Registered(bag, p) : TRUE IN
         Add(Remove(bag, r), [r EXCEPT !.registered = FALSE])

\* existingTask.cancel(): a running task rejects with a cancellation, and
\* its invocation runs catch (ignored) and finally (lock released) before
\* the caller's 10 ms timer; cancelling a settled task does nothing.
CancelTask(st, p) ==
    IF st.tasks[p] = "running"
    THEN LET r == CHOOSE x \in Registered(st.procs, p) : TRUE IN
         [st EXCEPT !.procs = Remove(@, r),
                    !.rendering = @ \ {p},
                    !.tasks[p] = "settled"]
    ELSE st

HasCanvas(p) == p \in Pages

RenderedUnchecked(st, p) == FALSE
AlreadyRendered(st, p) == p \in st.rendered

RenderingUnchecked(st, p) == FALSE
AlreadyRendering(st, p) == p \in st.rendering

\* renderPage(pageNum) up to its first await, with the scale of its closure.
RenderPage(st, p, sc) ==
    IF ~HasCanvas(p) THEN st
    ELSE IF AlreadyRendered(st, p) THEN st
    ELSE IF AlreadyRendering(st, p) THEN st
    ELSE IF st.tasks[p] # "none"
         THEN Suspend(CancelTask(st, p), "cancelWait", p, sc)
         ELSE Suspend([st EXCEPT !.rendering = @ \cup {p}], "getPage", p, sc)

\* ----------------------------------------------------- visibility tracker
Entry(p, i, r) == [page |-> p, isIntersecting |-> i, intersectionRatio |-> r]
Entries == {Entry(p, TRUE, r) : p \in Pages, r \in 1..MaxRatio}
             \cup {Entry(p, FALSE, 0) : p \in Pages}
\* A callback receives at most one entry per observed page container.
DistinctPages(b) == \A i, j \in DOMAIN b : i # j => b[i].page # b[j].page
Batches == {b \in UNION {[1..n -> Entries] : n \in 1..MaxBatch} : DistinctPages(b)}

\* The render trigger without the isIntersecting test.
RECURSIVE RenderEntriesAll(_, _, _)
RenderEntriesAll(st, entries, sc) ==
    IF entries = <<>> THEN st
    ELSE LET e == Head(entries) IN
         RenderEntriesAll(IF e.page > 0 THEN RenderPage(st, e.page, sc) ELSE st,
                          Tail(entries), sc)

\* The render trigger suppressed, like the election, by the navigation lock.
RECURSIVE RenderEntriesUnlocked(_, _, _)
RenderEntriesUnlocked(st, entries, sc) ==
    IF entries = <<>> THEN st
    ELSE LET e == Head(entries) IN
         RenderEntriesUnlocked(IF e.isIntersecting /\ e.page > 0 /\ ~isScrollingRef
                                  THEN RenderPage(st, e.page, sc) ELSE st,
                               Tail(entries), sc)

RECURSIVE RenderEntries(_, _, _)
RenderEntries(st, entries, sc) ==
    IF entries = <<>> THEN st
    ELSE LET e == Head(entries) IN
         RenderEntries(IF e.isIntersecting /\ e.page > 0
                          THEN RenderPage(st, e.page, sc) ELSE st,
                       Tail(entries), sc)

IsIntersecting(e) == e.isIntersecting
VisibleEntries(entries) == SelectSeq(entries, IsIntersecting)

RECURSIVE Reduce(_, _)
Reduce(prev, rest) ==
    IF rest = <<>> THEN prev
    ELSE Reduce(IF Head(rest).intersectionRatio > prev.intersectionRatio
                   THEN Head(rest) ELSE prev,
                Tail(rest))
MostVisible(entries) == Reduce(Head(entries), Tail(entries))

NeverSuppressed(lock) == FALSE
Suppressed(lock) == lock

\* The page the callback elects, or the current one when it elects nothing.
Elected(entries, lock, prevVisible) ==
    LET vis == VisibleEntries(entries) IN
    IF Len(vis) > 0 /\ ~Suppressed(lock)
    THEN LET pageNum == MostVisible(vis).page IN
         IF pageNum > 0 /\ pageNum - prevVisible # 0 THEN pageNum ELSE 0
    ELSE 0

NoTimer == [armed |-> FALSE, page |-> 0, remaining |-> 0]
TimerImmediate(p, ms) == [armed |-> TRUE, page |-> p, remaining |-> 0]
\* setTimeout(() => onPageChange(p), ms).
Timer(p, ms) == [armed |-> TRUE, page |-> p, remaining |-> ms]

\* The sync effect without its cleanup: a pending timeout outlives the
\* change that made the pages equal.
SyncEffectNoCleanup(pending, vis, cur, depsChanged) ==
    IF ~depsChanged THEN pending
    ELSE IF vis # cur THEN [armed |-> TRUE, page |-> vis, remaining |-> DebounceMs]
    ELSE pending

\* The sync effect without a restart: a pending timeout is retargeted and
\* keeps its deadline.
SyncEffectNoRestart(pending, vis, cur, depsChanged) ==
    IF ~depsChanged THEN pending
    ELSE IF vis # cur
         THEN IF pending.armed THEN [pending EXCEPT !.page = vis]
              ELSE [armed |-> TRUE, page |-> vis, remaining |-> DebounceMs]
    ELSE [armed |-> FALSE, page |-> 0, remaining |-> 0]

\* The "sync visible page with parent" effect: when a dependency changed
\* its cleanup clears the timeout, and a new one is set if the pages differ.
SyncEffect(pending, vis, cur, depsChanged) ==
    IF ~depsChanged THEN pending
    ELSE IF vis # cur THEN Timer(vis, DebounceMs)
    ELSE NoTimer

\* The most visible page of a batch, 0 when no entry is intersecting.
TopPage(b) == IF Len(VisibleEntries(b)) > 0
                 THEN MostVisible(VisibleEntries(b)).page ELSE 0

\* The pages a batch reports as intersecting.
SeenPages(b) == {b[i].page : i \in {j \in DOMAIN b : b[j].isIntersecting}}

\* IntersectionObserver callback.
Observe(b) ==
    LET st == RenderEntries(RenderState, b, scale)
        el == Elected(b, isScrollingRef, previousVisiblePage)
    IN  /\ st.ok
        /\ renderingPagesRef' = st.rendering
        /\ renderTasksRef' = st.tasks
        /\ procs' = st.procs
        /\ UNCHANGED <<scale, renderedPages, canvasScale>>
        /\ IF el # 0
             THEN /\ previousVisiblePage' = el
                  /\ visiblePage' = el
             ELSE UNCHANGED <<previousVisiblePage, visiblePage>>
        /\ debounce' = SyncEffect(debounce, visiblePage', currentPage,
                                  visiblePage' # visiblePage)
        /\ visibleFor' = IF visiblePage' # visiblePage THEN 0 ELSE visibleFor
        /\ UNCHANGED <<isScrollingRef, settleTimers, sinceDelivery, providerVars,
                       clockVars>>
        /\ lastNav' = [Nav("observe", TopPage(b)) EXCEPT !.seen = SeenPages(b)]

\* -------------------------------------------- renderPage after its awaits
\* The 10 ms wait after cancel() is over: the map entry is deleted and the
\* rendering lock is taken.
CancelWaitDone(r) ==
    /\ UNCHANGED clockVars
    /\ lastNav' = Nav("render", 0)
    /\ r.pc = "cancelWait"
    /\ renderTasksRef' = [renderTasksRef EXCEPT ![r.page] = "none"]
    /\ renderingPagesRef' = renderingPagesRef \cup {r.page}
    /\ procs' = Add(Remove(Unregister(procs, r.page), r), [r EXCEPT !.pc = "getPage"])
    /\ UNCHANGED <<scale, renderedPages, canvasScale, navVars, providerVars>>

\* An end of the invocation that leaves the lock in place.
FinishKeepsLock(r) ==
    /\ renderingPagesRef' = renderingPagesRef
    /\ renderTasksRef' = IF r.registered
                            THEN [renderTasksRef EXCEPT ![r.page] = "settled"]
                            ELSE renderTasksRef
    /\ procs' = Remove(procs, r)

FinishReleasesAll(r) ==
    /\ renderingPagesRef' = {}
    /\ renderTasksRef' = IF r.registered
                            THEN [renderTasksRef EXCEPT ![r.page] = "settled"]
                            ELSE renderTasksRef
    /\ procs' = Remove(procs, r)

\* The invocation ends: finally releases the lock.  A task that the
\* invocation registered and did not delete stays in the map, settled.
Finish(r) ==
    /\ renderingPagesRef' = renderingPagesRef \ {r.page}
    /\ renderTasksRef' = IF r.registered
                            THEN [renderTasksRef EXCEPT ![r.page] = "settled"]
                            ELSE renderTasksRef
    /\ procs' = Remove(procs, r)

\* canvas.width and canvas.height are set from the viewport of the
\* invocation's scale.
SizeCanvas(cs, p, sc) == [cs EXCEPT ![p] = sc]

GetPageOutcomes == {"page", "noContext", "error"}

\* pdf.getPage settles: page.render() starts and its task is put in the
\* map, or there is no 2d context, or the promise rejected.
GetPageDone(r, outcome) ==
    /\ UNCHANGED clockVars
    /\ lastNav' = IF outcome = "error" THEN Nav("getPageFailed", r.page)
                   ELSE Nav("render", 0)
    /\ r.pc = "getPage"
    /\ IF outcome = "page"
         THEN /\ renderTasksRef' = [renderTasksRef EXCEPT ![r.page] = "running"]
              /\ procs' = Add(Remove(Unregister(procs, r.page), r),
                              [r EXCEPT !.pc = "rendering", !.registered = TRUE])
              /\ canvasScale' = SizeCanvas(canvasScale, r.page, r.scale)
              /\ UNCHANGED renderingPagesRef
         ELSE Finish(r) /\ UNCHANGED canvasScale
    /\ UNCHANGED <<scale, renderedPages, navVars, providerVars>>

RenderOutcomes == {"done", "cancelled", "error"}

\* renderTask.promise settles: on success the map entry of the page is
\* deleted, on failure catch and finally run.
RenderDone(r, outcome) ==
    /\ UNCHANGED clockVars
    /\ lastNav' = Nav("render", 0)
    /\ r.pc = "rendering"
    /\ IF outcome = "done"
         THEN /\ renderTasksRef' = [renderTasksRef EXCEPT ![r.page] = "none"]
              /\ procs' = LET un == Unregister(procs, r.page)
                              me == [r EXCEPT !.registered = FALSE]
                          IN  Add(Remove(un, me), [me EXCEPT !.pc = "textLayer"])
              /\ UNCHANGED renderingPagesRef
         ELSE Finish(r)
    /\ UNCHANGED <<scale, renderedPages, canvasScale, navVars, providerVars>>

MarkRendered(rendered, p) == rendered \cup {p}

\* The text layer is built (or fails); on success the page is marked.
TextLayerDone(r, ok) ==
    /\ UNCHANGED clockVars
    /\ lastNav' = Nav("render", 0)
    /\ r.pc = "textLayer"
    /\ renderedPages' = IF ok THEN MarkRendered(renderedPages, r.page)
                              ELSE renderedPages
    /\ Finish(r)
    /\ UNCHANGED <<scale, canvasScale, navVars, providerVars>>

\* ------------------------------------------------------------------ zoom
ZoomedInUnclamped(s) == s + ScaleStep
\* The updater of zoom in: s => Math.min(s + 0.25, 3).
ZoomedIn(s) == Min(s + ScaleStep, MaxScale)
\* The updater of zoom out: s => Math.max(s - 0.25, 0.5).
ZoomedOut(s) == Max(s - ScaleStep, MinScale)

ScaleEffectKeeps(rendered, changed) == rendered
\* The effect on [scale, pdf]: clear the rendered set.
ScaleEffect(rendered, changed) == IF changed THEN {} ELSE rendered

\* The highest page of a set, 0 for the empty set.
TopOf(S) == IF S = {} THEN 0 ELSE CHOOSE p \in S : \A q \in S : q <= p

SetScale(s) ==
    /\ UNCHANGED clockVars
    /\ lastNav' = Nav("zoom", TopOf(renderedPages \ ScaleEffect(renderedPages, s # scale)))
    /\ scale' = s
    /\ renderedPages' = ScaleEffect(renderedPages, s # scale)
    /\ UNCHANGED <<renderingPagesRef, renderTasksRef, procs, canvasScale, navVars,
                   providerVars>>

ZoomIn == SetScale(ZoomedIn(scale))

ZoomOut == SetScale(ZoomedOut(scale))

\* The scales the render specification explores.
InZoomWindow(s) == s >= InitialScale /\ s <= InitialScale + ZoomSpan * ScaleStep

\* The loading placeholder of a page container is part of the output.
Placeholder(p) == p \notin renderedPages

\* ------------------------------------------------------- navigation sync
\* A scroll effect without the comparison with the visible page.
ScrollNeededAlways(c, vis) == c \in Pages

\* A scroll effect that ignores a request while a scroll is settling.
ScrollNeededOnceSettled(c, vis) == c # vis /\ c \in Pages /\ ~isScrollingRef
\* The "scroll to page" effect acts when the new currentPage differs from
\* the visible page and its page container exists.
ScrollNeeded(c, vis) == c # vis /\ c \in Pages

KeepVisible(c, vis) == vis
\* setVisiblePage(currentPage) of the scroll effect.
OptimisticVisible(c, vis) == c

\* The viewer's effects when the prop currentPage becomes c, with `pending'
\* the timeout of the sync effect at that moment.
ViewerOnCurrentPage(c, pending) ==
    /\ IF c # currentPage /\ ScrollNeeded(c, visiblePage)
         THEN /\ Len(settleTimers) < MaxTimers
              /\ isScrollingRef' = TRUE
              /\ previousVisiblePage' = c
              /\ visiblePage' = OptimisticVisible(c, visiblePage)
              /\ settleTimers' = Append(settleTimers, SettleMs)
         ELSE UNCHANGED <<isScrollingRef, previousVisiblePage, visiblePage,
                          settleTimers>>
    /\ debounce' = SyncEffect(pending, visiblePage', c,
                              visiblePage' # visiblePage \/ c # currentPage)
    /\ visibleFor' = IF visiblePage' # visiblePage THEN 0 ELSE visibleFor

ValidPage(page) == page >= 1 /\ page <= NumPages

\* PdfProvider.goToPage up to its await: optimistic update, then the
\* persistence request is in flight.
GoToPage(page, pending) ==
    IF ~ValidPage(page)
    THEN UNCHANGED <<navVars, providerVars>>
    ELSE /\ currentPage' = page
         /\ persists' = Append(persists, [page |-> page,
                                        previousPage |-> currentPage])
         /\ ViewerOnCurrentPage(page, pending)

\* The reader view calls goToPage (page input, next and previous buttons).
RequestPage(page) ==
    /\ UNCHANGED clockVars
    /\ lastNav' = Nav("request", 0)
    /\ GoToPage(page, debounce)
    /\ UNCHANGED sinceDelivery
    /\ UNCHANGED renderVars

RemoveAt(seq, i) == [j \in 1..(Len(seq) - 1) |-> IF j < i THEN seq[j] ELSE seq[j + 1]]

\* storage.updateLastOpened settles; a failure rolls currentPage back to
\* the page captured when goToPage was called.
PersistDone(i, ok) ==
    /\ i \in 1..Len(persists)
    /\ UNCHANGED clockVars
    /\ lastNav' = Nav(IF ok THEN "persisted" ELSE "rollback", persists[i].page)
    /\ persists' = RemoveAt(persists, i)
    /\ IF ok
         THEN UNCHANGED <<currentPage, navVars>>
         ELSE /\ currentPage' = persists[i].previousPage
              /\ ViewerOnCurrentPage(persists[i].previousPage, debounce)
              /\ UNCHANGED sinceDelivery
    /\ UNCHANGED renderVars

\* The 150 ms timeout of the sync effect fires: onPageChange(visiblePage).
DebounceFire ==
    /\ UNCHANGED clockVars
    /\ lastNav' = Nav("deliver", 0)
    /\ debounce.armed
    /\ debounce.remaining = 0
    /\ ValidPage(debounce.page)
    /\ GoToPage(debounce.page, NoTimer)
    /\ sinceDelivery' = 0
    /\ UNCHANGED renderVars

SettleCallbackKeeps(lock) == lock
\* The callback of the 500 ms timeout: isScrollingRef.current = false.
SettleCallback(lock) == FALSE

\* A 500 ms timeout of the scroll effect fires; timeouts fire in the
\* order of their deadlines.
SettleFire ==
    /\ UNCHANGED clockVars
    /\ lastNav' = Nav("settle", 0)
    /\ Len(settleTimers) > 0
    /\ Head(settleTimers) = 0
    /\ isScrollingRef' = SettleCallback(isScrollingRef)
    /\ settleTimers' = Tail(settleTimers)
    /\ UNCHANGED <<visiblePage, previousVisiblePage, debounce, visibleFor,
                   sinceDelivery, providerVars, renderVars>>

Elapse(ms) == Max(0, ms - TickMs)

\* TickMs of time pass.  A timeout that is due may still fire later.
Tick ==
    /\ UNCHANGED clockVars
    /\ lastNav' = Nav("tick", 0)
    /\ settleTimers' = [i \in DOMAIN settleTimers |-> Elapse(settleTimers[i])]
    /\ debounce' = IF debounce.armed
                      THEN [debounce EXCEPT !.remaining = Elapse(@)]
                      ELSE debounce
    /\ visibleFor' = Min(visibleFor + TickMs, DebounceMs)
    /\ sinceDelivery' = Min(sinceDelivery + TickMs, DebounceMs)
    /\ UNCHANGED <<visiblePage, previousVisiblePage, isScrollingRef,
                   providerVars, renderVars>>

\* -------------------------------------------------------- session clock
Truthy(x) == x # Null /\ x # 0

getSessionDurationLive == now - startTime
getSessionDuration ==
    IF isPaused /\ Truthy(pauseStartRef)
    THEN pauseStartRef - startTime
    ELSE now - startTime

getCurrentPageDurationLive == now - lastPageParams.time
getCurrentPageDuration ==
    IF isPaused /\ Truthy(pauseStartRef)
    THEN pauseStartRef - lastPageParams.time
    ELSE now - lastPageParams.time

\* Index of the entry of `page' in the ledger, 0 when there is none.
FindIndex(h, page) ==
    IF \E i \in 1..Len(h) : h[i].page = page
    THEN CHOOSE i \in 1..Len(h) :
            h[i].page = page /\ \A j \in 1..(i - 1) : h[j].page # page
    ELSE 0

RecordHistoryAppends(h, page, duration) ==
    Append(h, [page |-> page, duration |-> duration])
RecordHistoryOverwrites(h, page, duration) ==
    IF FindIndex(h, page) > 0
    THEN [h EXCEPT ![FindIndex(h, page)].duration = duration]
    ELSE Append(h, [page |-> page, duration |-> duration])
\* The setHistory updater: merge into the entry of the page or append.
RecordHistory(h, page, duration) ==
    IF FindIndex(h, page) > 0
    THEN [h EXCEPT ![FindIndex(h, page)].duration = @ + duration]
    ELSE Append(h, [page |-> page, duration |-> duration])

totalPagesReadWithCurrent ==
    Cardinality({history[i].page : i \in DOMAIN history} \cup {lastPageParams.page})
\* Derived stats: number of distinct pages in the ledger.
totalPagesRead == Cardinality({history[i].page : i \in DOMAIN history})

\* history.reduce((acc, curr) => acc + curr.duration, 0)
RECURSIVE ReduceDuration(_, _)
ReduceDuration(acc, h) ==
    IF h = <<>> THEN acc ELSE ReduceDuration(acc + Head(h).duration, Tail(h))

totalRecordedTime == ReduceDuration(0, history)

\* The quotient totalRecordedTime / totalPagesRead as a fraction, 0 when no
\* page is in the ledger.
avgTime ==
    IF totalPagesRead > 0
    THEN [num |-> totalRecordedTime, den |-> totalPagesRead]
    ELSE [num |-> 0, den |-> 1]

\* The page effect stamping the marker with the time of a page change made
\* during a pause.
PageEffectStamps(cs, paused, page, doc) ==
    IF doc = Null THEN cs
    ELSE IF paused
    THEN [cs EXCEPT !.lastPageParams = [page |-> page, time |-> now]]
    ELSE IF cs.lastPageParams.page # page
    THEN [history |-> RecordHistory(cs.history, cs.lastPageParams.page,
                                    now - cs.lastPageParams.time),
          lastPageParams |-> [page |-> page, time |-> now]]
    ELSE cs

\* The page effect recording the page left behind whether paused or not.
PageEffectRecords(cs, paused, page, doc) ==
    IF doc = Null THEN cs
    ELSE IF cs.lastPageParams.page # page
    THEN [history |-> RecordHistory(cs.history, cs.lastPageParams.page,
                                    now - cs.lastPageParams.time),
          lastPageParams |-> [page |-> page, time |-> now]]
    ELSE cs

\* The page effect without the test that the page differs from the marker's.
PageEffectRecordsSamePage(cs, paused, page, doc) ==
    IF doc = Null THEN cs
    ELSE IF paused
    THEN [cs EXCEPT !.lastPageParams.page = page]
    ELSE [history |-> RecordHistory(cs.history, cs.lastPageParams.page,
                                    now - cs.lastPageParams.time),
          lastPageParams |-> [page |-> page, time |-> now]]

\* The "track page changes" effect, run with the given isPaused.
PageEffect(cs, paused, page, doc) ==
    IF doc = Null THEN cs
    ELSE IF paused
    THEN [cs EXCEPT !.lastPageParams.page = page]
    ELSE IF cs.lastPageParams.page # page
    THEN [history |-> RecordHistory(cs.history, cs.lastPageParams.page,
                                    now - cs.lastPageParams.time),
          lastPageParams |-> [page |-> page, time |-> now]]
    ELSE cs

ClockState == [history |-> history, lastPageParams |-> lastPageParams]

NotShifted(t, pauseDuration) == t
ShiftedTwice(t, pauseDuration) == t + 2 * pauseDuration
\* Resuming shifts a timestamp forward by the length of the pause.
Shifted(t, pauseDuration) == t + pauseDuration

\* togglePause, then the page effect that the change of isPaused re-runs.
TogglePause ==
    /\ IF isPaused
         THEN /\ startTime' = IF Truthy(pauseStartRef)
                                 THEN Shifted(startTime, now - pauseStartRef)
                                 ELSE startTime
              /\ LET lpp == IF Truthy(pauseStartRef)
                               THEN [lastPageParams EXCEPT
                                       !.time = Shifted(@, now - pauseStartRef)]
                               ELSE lastPageParams
                     cs == PageEffect([history |-> history, lastPageParams |-> lpp],
                                      FALSE, currentPage, currentDocument)
                 IN  /\ lastPageParams' = cs.lastPageParams
                     /\ history' = cs.history
              /\ pauseStartRef' = Null
              /\ isPaused' = FALSE
              /\ pausedMs' = IF Truthy(pauseStartRef)
                                THEN pausedMs + (now - pauseStartRef)
                                ELSE pausedMs
         ELSE /\ pauseStartRef' = now
              /\ isPaused' = TRUE
              /\ UNCHANGED pausedMs
              /\ LET cs == PageEffect(ClockState, TRUE, currentPage, currentDocument)
                 IN  /\ lastPageParams' = cs.lastPageParams
                     /\ history' = cs.history
              /\ UNCHANGED startTime
    /\ lastNav' = Nav("togglePause", currentPage)
    /\ UNCHANGED <<now, currentDocument, viewedMs, renderVars, navVars,
                   providerVars>>

\* One call of togglePause on the closure of a render in which isPaused was
\* `paused': the refs are written at once, the state setters are queued.
TogglePauseCall(st, paused) ==
    IF paused
    THEN [startTime |-> IF Truthy(st.pauseStartRef)
                           THEN Shifted(st.startTime, now - st.pauseStartRef)
                           ELSE st.startTime,
          time |-> IF Truthy(st.pauseStartRef)
                      THEN Shifted(st.time, now - st.pauseStartRef)
                      ELSE st.time,
          pauseStartRef |-> Null,
          isPaused |-> FALSE,
          pausedMs |-> IF Truthy(st.pauseStartRef)
                          THEN st.pausedMs + (now - st.pauseStartRef)
                          ELSE st.pausedMs]
    ELSE [st EXCEPT !.pauseStartRef = now, !.isPaused = TRUE]

\* togglePause called twice by one handler: both calls run on the same
\* closure; the render and the page effect follow the second.
TogglePauseTwice ==
    LET st0 == [startTime |-> startTime, time |-> lastPageParams.time,
                pauseStartRef |-> pauseStartRef, isPaused |-> isPaused,
                pausedMs |-> pausedMs]
        st == TogglePauseCall(TogglePauseCall(st0, isPaused), isPaused)
        cs == PageEffect([history |-> history,
                          lastPageParams |-> [lastPageParams EXCEPT
                                                !.time = st.time]],
                         st.isPaused, currentPage, currentDocument)
    IN  /\ startTime' = st.startTime
        /\ pauseStartRef' = st.pauseStartRef
        /\ isPaused' = st.isPaused
        /\ pausedMs' = st.pausedMs
        /\ lastPageParams' = cs.lastPageParams
        /\ history' = cs.history
        /\ lastNav' = Nav("togglePauseTwice", currentPage)
        /\ UNCHANGED <<now, currentDocument, viewedMs, renderVars, navVars,
                       providerVars>>

\* The provider's currentPage becomes `page' while a document is open: the
\* page effect of the reading tracker runs.
TurnTo(page) ==
    /\ currentDocument # Null
    /\ currentPage' = page
    /\ LET cs == PageEffect(ClockState, isPaused, page, currentDocument)
       IN  /\ lastPageParams' = cs.lastPageParams
           /\ history' = cs.history
    /\ lastNav' = [Nav("pageChange", currentPage)
                       EXCEPT !.ms = getCurrentPageDuration]
    /\ UNCHANGED <<now, currentDocument, startTime, isPaused, pauseStartRef,
                   pausedMs, viewedMs, persists, renderVars, navVars>>

\* A page change within the document of NumPages pages.
PageChange(page) == ValidPage(page) /\ TurnTo(page)

ResetPauseStartKeeps(ref) == ref
\* The reset effect: pauseStartRef.current = null.
ResetPauseStart(ref) == Null

\* openDocument: the provider holds the document and its stored page.  When
\* the document id changed the reset effect runs; the page effect follows,
\* first with the isPaused of that render, then after the reset re-render.
\* The viewer gets the new pdf and its scale/pdf effect clears
\* renderedPages; its suspended invocations, tasks and locks stay.
OpenDocument(id, page) ==
    /\ currentDocument' = id
    /\ currentPage' = page
    /\ IF id # currentDocument
         THEN /\ startTime' = now
              /\ isPaused' = FALSE
              /\ pauseStartRef' = ResetPauseStart(pauseStartRef)
              /\ pausedMs' = 0
              /\ viewedMs' = [p \in DOMAIN viewedMs |-> 0]
              /\ LET reset == [history |-> <<>>,
                               lastPageParams |-> [page |-> page, time |-> now]]
                     first == PageEffect(reset, isPaused, page, id)
                     cs == PageEffect(first, FALSE, page, id)
                 IN  /\ lastPageParams' = cs.lastPageParams
                     /\ history' = cs.history
         ELSE /\ UNCHANGED <<startTime, isPaused, pauseStartRef, pausedMs,
                           viewedMs>>
              /\ LET cs == PageEffect(ClockState, isPaused, page, id)
                 IN  /\ lastPageParams' = cs.lastPageParams
                     /\ history' = cs.history
    /\ lastNav' = Nav("openDocument", currentDocument)
    /\ renderedPages' = ScaleEffect(renderedPages, TRUE)
    /\ UNCHANGED <<now, persists, scale, renderingPagesRef, renderTasksRef,
                   procs, canvasScale, navVars>>

\* closeDocument: no document, currentPage back to 1; both effects return
\* at once.
CloseDocument ==
    /\ currentDocument # Null
    /\ currentDocument' = Null
    /\ currentPage' = 1
    /\ lastNav' = Nav("closeDocument", 0)
    /\ UNCHANGED <<now, startTime, history, isPaused, pauseStartRef,
                   lastPageParams, pausedMs, viewedMs, persists, renderVars,
                   navVars>>

\* ClockStepMs of wall-clock time pass, up to `steps' times.
Elapsed(steps) ==
    /\ now < (steps + 1) * ClockStepMs
    /\ now' = now + ClockStepMs
    /\ lastNav' = Nav("tick", 0)
    /\ viewedMs' = IF currentDocument # Null /\ ~isPaused
                      THEN [viewedMs EXCEPT ![currentPage] = @ + ClockStepMs]
                      ELSE viewedMs
    /\ UNCHANGED <<currentDocument, startTime, history, isPaused, pauseStartRef,
                   lastPageParams, pausedMs, renderVars, navVars, providerVars>>

ClockTick == Elapsed(MaxClockSteps)

\* ------------------------------------------------------------------ init
StartPage == 1

Init ==
    /\ scale = InitialScale
    /\ renderedPages = {}
    /\ renderingPagesRef = {}
    /\ renderTasksRef = [p \in Pages |-> "none"]
    /\ procs = EmptyBag
    /\ canvasScale = [p \in Pages |-> Null]
    /\ visiblePage = StartPage
    /\ previousVisiblePage = StartPage
    /\ isScrollingRef = FALSE
    /\ settleTimers = <<>>
    /\ debounce = NoTimer
    /\ visibleFor = 0
    /\ sinceDelivery = DebounceMs
    /\ currentPage = StartPage
    /\ persists = <<>>
    /\ currentDocument = 1
    /\ now = ClockStepMs
    /\ startTime = ClockStepMs
    /\ history = <<>>
    /\ isPaused = FALSE
    /\ pauseStartRef = Null
    /\ lastPageParams = [page |-> StartPage, time |-> ClockStepMs]
    /\ lastNav = Nav("mount", 0)
    /\ pausedMs = 0
    /\ viewedMs = [p \in 1..Max(NumPages, VisitPages) |-> 0]

\* ------------------------------------------------- render specification
InRenderSpan(b) == \A i \in DOMAIN b : b[i].page <= RenderSpan

Next ==
    \/ \E b \in Batches : InRenderSpan(b) /\ Observe(b)
    \/ \E r \in BagToSet(procs) : CancelWaitDone(r)
    \/ \E r \in BagToSet(procs), o \in GetPageOutcomes : GetPageDone(r, o)
    \/ \E r \in BagToSet(procs), o \in RenderOutcomes : RenderDone(r, o)
    \/ \E r \in BagToSet(procs), ok \in BOOLEAN : TextLayerDone(r, ok)
    \/ InZoomWindow(ZoomedIn(scale)) /\ ZoomIn
    \/ InZoomWindow(ZoomedOut(scale)) /\ ZoomOut

Spec == Init /\ [][Next]_vars

\* The promise or timeout that the suspended invocation r awaits settles.
Settles(r) ==
    /\ r \in BagToSet(procs)
    /\ \/ CancelWaitDone(r)
       \/ \E o \in GetPageOutcomes : GetPageDone(r, o)
       \/ \E o \in RenderOutcomes : RenderDone(r, o)
       \/ \E ok \in BOOLEAN : TextLayerDone(r, ok)

\* The invocations the render specification can suspend.
ProcRecords ==
    [pc : {"cancelWait", "getPage", "rendering", "textLayer"},
     page : 1..RenderSpan,
     scale : {sc \in Scales : InZoomWindow(sc)},
     registered : BOOLEAN,
     pdf : {1}]

\* Every awaited promise and the 10 ms timeout settle.
FairSpec == Spec /\ \A r \in ProcRecords : WF_vars(Settles(r))

\* ------------------------------------------------------ zoom specification
\* The render scheduler of the first page under every zoom request the
\* buttons and the keyboard can make, over the whole range of scales.
FirstPageOnly(b) == \A i \in DOMAIN b : b[i].page = 1

ZoomNext ==
    \/ \E b \in Batches : FirstPageOnly(b) /\ Observe(b)
    \/ \E r \in BagToSet(procs) : CancelWaitDone(r)
    \/ \E r \in BagToSet(procs), o \in GetPageOutcomes : GetPageDone(r, o)
    \/ \E r \in BagToSet(procs), o \in RenderOutcomes : RenderDone(r, o)
    \/ \E r \in BagToSet(procs), ok \in BOOLEAN : TextLayerDone(r, ok)
    \/ ZoomIn
    \/ ZoomOut

ZoomSpec == Init /\ [][ZoomNext]_vars

\* ------------------------------------------- document change specification
\* The render scheduler at one scale while the provider replaces the open
\* document by another one that opens at the same page.
DocNext ==
    \/ \E b \in Batches : InRenderSpan(b) /\ Observe(b)
    \/ \E r \in BagToSet(procs) : CancelWaitDone(r)
    \/ \E r \in BagToSet(procs), o \in GetPageOutcomes : GetPageDone(r, o)
    \/ \E r \in BagToSet(procs), o \in RenderOutcomes : RenderDone(r, o)
    \/ \E r \in BagToSet(procs), ok \in BOOLEAN : TextLayerDone(r, ok)
    \/ \E id \in 1..MaxDocs :
          id # currentDocument /\ OpenDocument(id, currentPage)

DocSpec == Init /\ [][DocNext]_vars

\* --------------------------------------------- navigation specification
\* Visibility observations, external page requests and the timers.  The
\* renders that the observations start stay suspended here: their steps
\* change no variable of the visibility tracker or of the provider.
CanPersist(page, max) == ValidPage(page) => Len(persists) < max

NavNext ==
    \/ \E b \in Batches : Observe(b)
    \/ \E page \in 0..(NumPages + 1) :
          CanPersist(page, MaxPersist) /\ RequestPage(page)
    \/ \E i \in 1..MaxPersist, ok \in BOOLEAN : PersistDone(i, ok)
    \/ CanPersist(debounce.page, MaxPersist) /\ DebounceFire
    \/ SettleFire
    \/ Tick

NavSpec == Init /\ [][NavNext]_vars

\* Time passes and a timeout that is due is run by the event loop.
FairNavSpec == NavSpec /\ WF_vars(Tick) /\ WF_vars(SettleFire)

\* ------------------------------------------------ provider specification
\* Page requests that overlap their persistence, with the viewer's scroll
\* effect and its timers; no organic scrolling.
ProviderNext ==
    \/ \E page \in 0..(NumPages + 1) :
          CanPersist(page, MaxInFlight) /\ RequestPage(page)
    \/ \E i \in 1..MaxInFlight, ok \in BOOLEAN : PersistDone(i, ok)
    \/ SettleFire
    \/ Tick

ProviderSpec == Init /\ [][ProviderNext]_vars

\* ------------------------------------------- session clock specification
\* The reading tracker under pauses, page changes, document opens and the
\* passage of time; the viewer's own reaction to a page change is the
\* subject of NavSpec.
ClockNext ==
    \/ TogglePause
    \/ TogglePauseTwice
    \/ \E page \in Pages : PageChange(page)
    \/ \E id \in 1..MaxDocs, page \in Pages : OpenDocument(id, page)
    \/ CloseDocument
    \/ ClockTick

ClockSpec == Init /\ [][ClockNext]_vars

\* --------------------------------------------- page visit specification
\* Uninterrupted reading of one document of VisitPages pages: the document
\* is opened at one of its pages, then pages change and time passes,
\* without pauses.
VisitNext ==
    \/ \E id \in 1..MaxDocs, page \in 1..VisitPages :
          lastNav.op = "mount" /\ OpenDocument(id, page)
    \/ \E page \in 1..VisitPages : TurnTo(page)
    \/ Elapsed(VisitSteps)

VisitSpec == Init /\ [][VisitNext]_vars

\* =================================================================
\* Properties
\* =================================================================
RECURSIVE SumCopies(_, _)
SumCopies(S, bag) ==
    IF S = {} THEN 0
    ELSE LET r == CHOOSE x \in S : TRUE IN
         CopiesIn(r, bag) + SumCopies(S \ {r}, bag)

\* Render operations of page p whose renderTask.promise has not settled.
InFlight(p) ==
    SumCopies({r \in BagToSet(procs) : r.page = p /\ r.pc = "rendering"}, procs)

\* The render record of page p.
PageRecord(p) ==
    [rendered |-> p \in renderedPages,
     rendering |-> p \in renderingPagesRef,
     task |-> renderTasksRef[p],
     ops |-> [r \in {x \in BagToSet(procs) : x.page = p} |-> CopiesIn(r, procs)]]

\* A step is an observer callback exactly when it records itself as one.
ObserveStep == lastNav'.op = "observe"

\* C1: for every page, at most one render operation is in flight in every
\* reachable state.
C1_AtMostOneInFlight == \A p \in Pages : InFlight(p) <= 1

\* C2: a page enters the rendered set only by the completion of an
\* operation that was started at the scale that is current at completion.
C2_RenderedAtCurrentScale ==
    [][\A p \in renderedPages' \ renderedPages :
          \E r \in BagToSet(procs) :
             /\ r.pc = "textLayer" /\ r.page = p
             /\ CopiesIn(r, procs') < CopiesIn(r, procs)
             /\ r.scale = scale']_vars

\* C3: every step that begins or ends in a paused session and is not the
\* opening of another document (the pause, the passage of any time, page
\* changes during the pause, the resume) leaves elapsedSessionMs and
\* elapsedCurrentPageMs unchanged; so the readings right after the resume
\* equal those right before the pause, for every pause length.
C3_PauseResumeExact ==
    [][((isPaused \/ isPaused') /\ currentDocument' = currentDocument)
          => /\ getSessionDuration' = getSessionDuration
             /\ getCurrentPageDuration' = getCurrentPageDuration]_vars

C3_Resumed ==
    /\ ~isPaused
    /\ pausedMs > 0
    /\ getSessionDuration > 0
    /\ getCurrentPageDuration > 0

\* C4: a step that changes currentPage to a page other than the visible
\* page sets the lock, starts a settle timer and makes that page the
\* visible page, all at once; and whenever the lock is held after a step,
\* the visible page is the requested page.
C4_LockWithTarget ==
    [][/\ (currentPage' # currentPage /\ currentPage' # visiblePage)
            => /\ isScrollingRef'
               /\ visiblePage' = currentPage'
               /\ previousVisiblePage' = currentPage'
               /\ settleTimers' = Append(settleTimers, SettleMs)
       /\ isScrollingRef' => visiblePage' = currentPage']_vars

C4_LockAcquired ==
    /\ lastNav.op = "request"
    /\ isScrollingRef
    /\ visiblePage = currentPage
    /\ visiblePage # StartPage
    /\ settleTimers = <<SettleMs>>

\* C5: while the settle delay of the most recent programmatic scroll has
\* not elapsed, the navigation lock is held.
C5_LockUntilLastSettle ==
    (Len(settleTimers) > 0 /\ settleTimers[Len(settleTimers)] > 0) => isScrollingRef

\* C6: while the navigation lock is held, a step that is not a change of
\* currentPage (every visibility observation is such a step) leaves the
\* visible page unchanged.
C6_NoElectionUnderLock ==
    [][(isScrollingRef /\ currentPage' = currentPage)
          => visiblePage' = visiblePage]_vars

C6_ObservedUnderLock ==
    /\ isScrollingRef
    /\ lastNav.op = "observe"
    /\ lastNav.page # 0
    /\ lastNav.page # visiblePage
    /\ visiblePage = currentPage

\* C7: while the navigation lock is held no onPageChange is delivered, no
\* debounce timeout is pending, and currentPage changes only by an external
\* request or by the rollback of one.
C7_NoDeliveryUnderLock ==
    [][/\ isScrollingRef => ~DebounceFire
       /\ (isScrollingRef /\ currentPage' # currentPage)
             => lastNav'.op \in {"request", "rollback"}
       /\ isScrollingRef' => ~debounce'.armed]_vars

C7_LockOutlastsDebounce ==
    /\ isScrollingRef
    /\ lastNav.op = "tick"
    /\ Len(settleTimers) > 0
    /\ settleTimers[Len(settleTimers)] <= SettleMs - DebounceMs
    /\ visiblePage = currentPage
    /\ visiblePage # StartPage

\* C8: onPageChange(p) is delivered only when p is the visible page, has
\* been it for the whole quiet window and differs from currentPage; and a
\* change of the visible page cancels the pending timeout or replaces it by
\* a full one for the new page.
C8_DebouncedDelivery ==
    [][/\ DebounceFire
            => /\ debounce.page = visiblePage
               /\ visibleFor >= DebounceMs
               /\ visiblePage # currentPage
               /\ currentPage' = visiblePage
       /\ visiblePage' # visiblePage
            => \/ ~debounce'.armed
               \/ debounce' = Timer(visiblePage', DebounceMs)]_vars

C8_Delivered ==
    /\ lastNav.op = "deliver"
    /\ currentPage = visiblePage
    /\ currentPage # StartPage
    /\ visibleFor >= DebounceMs

\* C9: an observer callback, however often it is repeated, leaves the
\* render record of every page of the rendered set as it was: renderPage
\* starts no operation for such a page and cancels nothing.
C9_RenderedIsNoOp ==
    [][ObserveStep
          => /\ \A p \in renderedPages : PageRecord(p)' = PageRecord(p)
             /\ renderedPages' = renderedPages /\ scale' = scale]_vars

C9_ObservedRendered ==
    /\ lastNav.op = "observe"
    /\ lastNav.page \in renderedPages
    /\ lastNav.page \notin renderingPagesRef

\* C10: an observer callback leaves the render record of every page that
\* holds the rendering lock unchanged: no second operation, no cancel.
C10_RenderingIsNoOp ==
    [][ObserveStep => \A p \in renderingPagesRef : PageRecord(p)' = PageRecord(p)]_vars

C10_ObservedRendering ==
    /\ lastNav.op = "observe"
    /\ lastNav.page \in renderingPagesRef
    /\ renderTasksRef[lastNav.page] = "running"
    /\ InFlight(lastNav.page) = 1

\* The invocations of renderPage(p) that are suspended at an await.
Invocations(p) == {r \in BagToSet(procs) : r.page = p}

\* C11: a page that is marked rendered and has no invocation left is
\* rasterized at the current scale.  A marked page gets no further render
\* (renderPage returns at once), so a state that breaks this is final for
\* the page: it is never rendered at the new scale.
C11_RenderedAtNewScale ==
    \A p \in Pages :
        (p \in renderedPages /\ Invocations(p) = {}) => canvasScale[p] = scale

Started(p) ==
    \/ SumCopies(Invocations(p)', procs') > SumCopies(Invocations(p), procs)
    \/ LET W(bag) == {r \in BagToSet(bag) : r.page = p /\ r.pc = "cancelWait"}
       IN  SumCopies(W(procs'), procs') > SumCopies(W(procs), procs)

\* C13: a step that starts a render operation for page p is an observer
\* callback whose batch reports p as intersecting; scale changes and the
\* completions of other operations start nothing.
C13_StartedOnlyWhenIntersecting ==
    [][\A p \in Pages :
          Started(p) => (ObserveStep /\ p \in lastNav'.seen)]_vars

C13_StartedAfterZoom ==
    /\ lastNav.op = "observe"
    /\ lastNav.page # 0
    /\ scale # InitialScale
    /\ \E r \in Invocations(lastNav.page) : r.scale = scale /\ r.pc = "getPage"
    /\ \E q \in 1..RenderSpan :
          q # lastNav.page /\ Invocations(q) = {} /\ Placeholder(q)

\* C14: an observer callback leaves every page that it reports as
\* intersecting, at any ratio, either marked rendered or with a renderPage
\* invocation under way, whether or not the navigation lock is held; and a
\* step that takes or holds the lock without being an observer callback
\* leaves the render state alone.
C14_TriggerDespiteLock ==
    [][/\ ObserveStep
            => \A p \in lastNav'.seen :
                  p \in renderedPages' \/ Invocations(p)' # {}
       /\ (isScrollingRef' /\ ~ObserveStep) => UNCHANGED renderVars]_vars

C14_TriggeredUnderLock ==
    /\ isScrollingRef
    /\ lastNav.op = "observe"
    /\ lastNav.page # 0
    /\ lastNav.page # visiblePage
    /\ \E p \in lastNav.seen : p # lastNav.page /\ Invocations(p) # {}
    /\ \E r \in Invocations(lastNav.page) : r.pc = "getPage"

\* The page of the intersecting entry with the greatest ratio, the smallest
\* page among those of equal greatest ratio.
GreatestSmallest(b) ==
    LET V == {i \in DOMAIN b : b[i].isIntersecting} IN
    CHOOSE p \in SeenPages(b) :
        \E i \in V : /\ b[i].page = p
                     /\ \A j \in V :
                           \/ b[j].intersectionRatio < b[i].intersectionRatio
                           \/ /\ b[j].intersectionRatio = b[i].intersectionRatio
                              /\ b[j].page >= p

\* C15: an observer callback that runs without the navigation lock makes
\* the visible page the intersecting page of greatest ratio, the smallest
\* page among equal ratios, in whatever order the batch lists its entries;
\* a batch without an intersecting entry leaves the visible page alone.
C15_ElectsGreatestSmallest ==
    [][\A b \in Batches :
          /\ (SeenPages(b) # {} /\ ~isScrollingRef /\ Observe(b))
                => visiblePage' = GreatestSmallest(b)
          /\ (SeenPages(b) = {} /\ Observe(b)) => visiblePage' = visiblePage]_vars

\* C16: the navigation lock, once held, is eventually released (time
\* passes and the settle timeout runs), and an observer callback that runs
\* without the lock makes the most visible page of its batch the visible
\* page.
C16_LockReleased ==
    /\ isScrollingRef ~> ~isScrollingRef
    /\ [][(ObserveStep /\ ~isScrollingRef /\ lastNav'.page # 0)
              => visiblePage' = lastNav'.page]_vars

C16_Released ==
    /\ lastNav.op = "settle"
    /\ ~isScrollingRef
    /\ settleTimers = <<>>
    /\ visiblePage = currentPage
    /\ currentPage # StartPage

\* C17: a page request that arrives while the lock of an earlier request is
\* held leaves the requested page as currentPage, visible page and scroll
\* target, with the lock held and no notification pending; and the visible
\* page changes only to the page of the step that changes it (the page just
\* requested or rolled back to, or the most visible page of the batch just
\* observed), never to a page kept from an earlier request.
C17_LastWriterWins ==
    [][/\ (isScrollingRef /\ lastNav'.op = "request" /\ currentPage' # currentPage)
            => /\ isScrollingRef'
               /\ visiblePage' = currentPage'
               /\ previousVisiblePage' = currentPage'
               /\ ~debounce'.armed
       /\ visiblePage' # visiblePage
            => \/ lastNav'.op \in {"request", "rollback"} /\ visiblePage' = currentPage'
               \/ ObserveStep /\ visiblePage' = lastNav'.page]_vars

C17_SecondRequest ==
    /\ lastNav.op = "request"
    /\ isScrollingRef
    /\ Len(settleTimers) = 2
    /\ settleTimers[1] > 0
    /\ settleTimers[1] < SettleMs
    /\ settleTimers[2] = SettleMs
    /\ visiblePage = currentPage
    /\ previousVisiblePage = currentPage

\* C18: pauseStartRef holds a timestamp exactly when the session is paused.
C18_PauseStartIffPaused == isPaused <=> pauseStartRef # Null

C18_PausedAgain ==
    /\ isPaused
    /\ pauseStartRef # Null
    /\ pauseStartRef > startTime
    /\ pausedMs > 0

\* C19: while the session is not paused, startTime <= lastPageParams.time
\* <= now, so neither reading is negative and the current page's reading
\* does not exceed the session's.
C19_OrderedWhileUnpaused ==
    ~isPaused
       => /\ startTime <= lastPageParams.time
          /\ lastPageParams.time <= now
          /\ getCurrentPageDuration >= 0
          /\ getCurrentPageDuration <= getSessionDuration

C19_ResumedOnOtherPage ==
    /\ ~isPaused
    /\ pausedMs > 0
    /\ history # <<>>
    /\ startTime < lastPageParams.time
    /\ lastPageParams.time < now

\* C20: in a paused session the readings are pauseStartRef - startTime and
\* pauseStartRef - lastPageParams.time, and a step that leaves the session
\* paused (time passing, a page change) leaves both at the values they had;
\* in a session that is not paused they are now - startTime and
\* now - lastPageParams.time.
C20_FrozenWhilePaused ==
    [][/\ (isPaused /\ isPaused')
            => /\ getSessionDuration' = pauseStartRef - startTime
               /\ getCurrentPageDuration' = pauseStartRef - lastPageParams.time
       /\ ~isPaused'
            => /\ getSessionDuration' = now' - startTime'
               /\ getCurrentPageDuration' = now' - lastPageParams'.time]_vars

C20_PausedOnOtherPage ==
    /\ isPaused
    /\ now > pauseStartRef
    /\ lastPageParams.page = currentPage
    /\ currentPage # StartPage
    /\ history = <<>>
    /\ getSessionDuration > 0
    /\ getSessionDuration < now - startTime

\* A step in which the provider's page changes within the open document.
PageChangeStep ==
    /\ currentDocument # Null
    /\ currentDocument' = currentDocument
    /\ currentPage' # currentPage

\* C21: a page change in a paused session changes only the page index of
\* the marker: the ledger, startTime, the marker's timestamp and
\* pauseStartRef stay as they were.
C21_PausedPageChangeOnlyIndex ==
    [][(PageChangeStep /\ isPaused)
          => /\ lastPageParams' = [lastPageParams EXCEPT !.page = currentPage']
             /\ history' = history
             /\ startTime' = startTime
             /\ pauseStartRef' = pauseStartRef
             /\ isPaused']_vars

C21_PageChangedWhilePaused ==
    /\ lastNav.op = "pageChange"
    /\ isPaused
    /\ lastNav.page # currentPage
    /\ lastPageParams.page = currentPage
    /\ lastPageParams.time < pauseStartRef
    /\ pauseStartRef < now
    /\ FindIndex(history, lastNav.page) = 0

\* Sum of the durations of the ledger entries of `page'.
RECURSIVE DurationOf(_, _)
DurationOf(h, page) ==
    IF h = <<>> THEN 0
    ELSE (IF Head(h).page = page THEN Head(h).duration ELSE 0)
         + DurationOf(Tail(h), page)

\* C22: a page change in a session that is not paused adds
\* now - lastPageParams.time to the ledger for the page left, once, and to
\* no other page, and makes (new page, now) the marker; an effect run in
\* which the page equals the marker's page leaves ledger and marker alone.
C22_UnpausedPageChangeRecords ==
    [][/\ (PageChangeStep /\ ~isPaused)
            => /\ lastPageParams.page = currentPage
               /\ \A q \in Pages :
                     DurationOf(history', q)
                       = DurationOf(history, q)
                           + (IF q = currentPage
                                 THEN now - lastPageParams.time ELSE 0)
               /\ Len(history') \in {Len(history), Len(history) + 1}
               /\ lastPageParams' = [page |-> currentPage', time |-> now]
       /\ (currentDocument # Null /\ currentDocument' = currentDocument
             /\ currentPage' = currentPage /\ ~isPaused')
            => /\ history' = history
               /\ lastPageParams'.page = lastPageParams.page
               /\ ~isPaused => lastPageParams' = lastPageParams]_vars

C22_Recorded ==
    /\ lastNav.op = "pageChange"
    /\ ~isPaused
    /\ lastNav.page # currentPage
    /\ lastPageParams = [page |-> currentPage, time |-> now]
    /\ FindIndex(history, lastNav.page) > 0
    /\ DurationOf(history, lastNav.page) > 0
    /\ Len(history) > 1

\* A step that does not start a new session.
SameSession == ~(lastNav'.op = "openDocument" /\ currentDocument' # currentDocument)

\* C23: the ledger never holds two entries of one page; within a session
\* the entries keep their positions and pages, no duration decreases, and a
\* record either raises the entry of its page or appends one entry for a
\* page that had none.
C23_LedgerMerge ==
    /\ [](\A i, j \in 1..Len(history) :
              history[i].page = history[j].page => i = j)
    /\ [][SameSession
            => /\ Len(history') \in {Len(history), Len(history) + 1}
               /\ \A i \in 1..Len(history) :
                     /\ history'[i].page = history[i].page
                     /\ history'[i].duration >= history[i].duration
               /\ Cardinality({i \in 1..Len(history) :
                                 history'[i] # history[i]})
                     <= (IF Len(history') = Len(history) THEN 1 ELSE 0)
               /\ Len(history') > Len(history)
                     => /\ FindIndex(history, history'[Len(history')].page) = 0
                        /\ history'[Len(history')].page = lastPageParams.page
                        /\ history'[Len(history')].duration
                              = now - lastPageParams.time]_vars

C23_Merged ==
    /\ lastNav.op = "pageChange"
    /\ Len(history) = 2
    /\ history[1].page = lastNav.page
    /\ history[1].duration >= 2 * ClockStepMs
    /\ history[2].duration > 0
    /\ ~isPaused

\* The ledger holding `a' for page 3 and, when b > 0, `b' for page 4.
Ledger34(a, b) ==
    IF b = 0 THEN <<[page |-> 3, duration |-> a]>>
    ELSE <<[page |-> 3, duration |-> a], [page |-> 4, duration |-> b]>>

\* The session is on `page' since `ms', not paused, with ledger `h'.
OnPageFor(page, ms, h) ==
    /\ ~isPaused
    /\ currentDocument # Null
    /\ currentPage = page
    /\ lastPageParams = [page |-> page, time |-> now - ms]
    /\ history = h

\* C24: in a session that is not paused, 2000 ms on page 3, then 500 ms on
\* page 4, then 1000 ms on page 3 again leave a ledger of 3000 ms for page 3
\* and 500 ms for page 4, and two distinct pages read: each of the three
\* page changes that end these visits records as stated.
C24_PageSwitchAccumulation ==
    [][/\ (OnPageFor(3, 2000, <<>>) /\ PageChangeStep /\ currentPage' = 4)
            => (history' = Ledger34(2000, 0)
                  /\ lastPageParams' = [page |-> 4, time |-> now])
       /\ (OnPageFor(4, 500, Ledger34(2000, 0)) /\ PageChangeStep
              /\ currentPage' = 3)
            => (history' = Ledger34(2000, 500)
                  /\ lastPageParams' = [page |-> 3, time |-> now])
       /\ (OnPageFor(3, 1000, Ledger34(2000, 500)) /\ PageChangeStep)
            => (history' = Ledger34(3000, 500) /\ totalPagesRead' = 2)]_vars

C24_VisitedThreeFourThree ==
    /\ lastNav.op = "pageChange"
    /\ lastNav.page = 3
    /\ lastNav.ms = 1000
    /\ history = Ledger34(3000, 500)
    /\ totalPagesRead = 2
    /\ now - startTime = 3500
    /\ lastPageParams.time = now

\* C25: every open of a document leaves a fresh session: startTime = now,
\* an empty ledger, not paused with pauseStartRef absent, and the marker at
\* (the page the document opens at, now).
C25_FreshOnOpen ==
    [][lastNav'.op = "openDocument"
          => /\ startTime' = now'
             /\ history' = <<>>
             /\ ~isPaused'
             /\ pauseStartRef' = Null
             /\ lastPageParams' = [page |-> currentPage', time |-> now']]_vars

\* The step is the failure of invocation r: getPage or the render task
\* rejects, or the text layer throws.
Fails(r) ==
    \/ GetPageDone(r, "error")
    \/ RenderDone(r, "cancelled")
    \/ RenderDone(r, "error")
    \/ TextLayerDone(r, FALSE)

\* C26: when a render of page p fails, p is left out of renderedPages and
\* without its rendering lock; an observation that reports such a page as
\* intersecting starts a render of it, however many have failed before.
C26_FailedRenderRetried ==
    [][/\ \A r \in BagToSet(procs) :
             Fails(r) => /\ r.page \notin renderedPages'
                         /\ r.page \notin renderingPagesRef'
       /\ \A p \in Pages :
             (ObserveStep /\ p \in lastNav'.seen /\ p \notin renderedPages
                /\ p \notin renderingPagesRef) => Started(p)]_vars

\* C27: when getPage rejects for page p, the invocation ends through catch
\* and finally (it leaves the suspended invocations and p's lock is
\* released), and the render record of every other page is as before.
C27_GetPageFailureContained ==
    [][\A p \in Pages :
         (lastNav'.op = "getPageFailed" /\ lastNav'.page = p)
            => /\ \A q \in Pages \ {p} : PageRecord(q)' = PageRecord(q)
               /\ p \notin renderingPagesRef'
               /\ SumCopies(Invocations(p)', procs')
                     = SumCopies(Invocations(p), procs) - 1
               /\ renderedPages' = renderedPages
               /\ scale' = scale]_vars

C27_FailedBesideOthers ==
    /\ lastNav.op = "getPageFailed"
    /\ Invocations(lastNav.page) = {}
    /\ \E q \in Pages \ {lastNav.page} :
          /\ q \in renderingPagesRef
          /\ renderTasksRef[q] = "running"
          /\ \E r \in Invocations(q) : r.pc = "rendering"
    /\ lastNav.page \notin renderedPages

\* C28: a step in which a render operation of page p starts (page.render()
\* is called) finds no task recorded for p, every earlier one having been
\* cancelled and deleted, and no earlier operation of p still running.
C28_StartsAfterCancel ==
    [][\A p \in Pages :
         InFlight(p)' > InFlight(p)
            => (renderTasksRef[p] = "none" /\ InFlight(p) = 0)]_vars

\* C29: when the document changes every suspended render operation is
\* cancelled, and a page enters renderedPages only by the completion of an
\* operation that was started for the document now open.
C29_NoRenderAcrossDocuments ==
    [][/\ currentDocument' # currentDocument
            => (procs' = EmptyBag
                  /\ \A p \in Pages : renderTasksRef'[p] # "running")
       /\ \A p \in Pages :
             (p \notin renderedPages /\ p \in renderedPages')
                => \E r \in Invocations(p) :
                      /\ r.pc = "textLayer"
                      /\ r.pdf = currentDocument
                      /\ CopiesIn(r, procs') < CopiesIn(r, procs)]_vars

\* C30: two calls of togglePause with no time and no render between them
\* leave isPaused, pauseStartRef, startTime and the marker's timestamp as
\* they were before the first.
C30_DoubleToggleNoOp ==
    [][lastNav'.op = "togglePauseTwice"
          => /\ isPaused' = isPaused
             /\ pauseStartRef' = pauseStartRef
             /\ startTime' = startTime
             /\ lastPageParams'.time = lastPageParams.time]_vars

\* Sum of DurationOf over a set of pages.
RECURSIVE LedgerTotal(_, _)
LedgerTotal(h, S) ==
    IF S = {} THEN 0
    ELSE LET p == CHOOSE x \in S : TRUE
         IN  DurationOf(h, p) + LedgerTotal(h, S \ {p})

\* C33: the number of pages read is the number of ledger entries, the
\* average is the ledger total over that number, 0 for an empty ledger; the
\* page being timed is counted only when it has an entry, and a step that
\* leaves the ledger alone leaves both values alone.
C33_DerivedFromLedger ==
    /\ [](/\ totalPagesRead = Len(history)
           /\ avgTime.num * Len(history) = LedgerTotal(history, Pages) * avgTime.den
           /\ (history = <<>> => avgTime.num = 0)
           /\ (history # <<>> => avgTime.den = Len(history))
           /\ (FindIndex(history, lastPageParams.page) = 0
                 => \A i \in DOMAIN history :
                       history[i].page # lastPageParams.page))
    /\ [][history' = history
            => (totalPagesRead' = totalPagesRead /\ avgTime' = avgTime)]_vars

C33_TimedPageNotCounted ==
    /\ Len(history) = 2
    /\ totalPagesRead = 2
    /\ FindIndex(history, lastPageParams.page) = 0
    /\ getCurrentPageDuration > 0
    /\ avgTime.num > avgTime.den
    /\ lastNav.op = "tick"

\* C34: in a session with an open document the durations of the ledger
\* and the reading of the current page add up to the reading of the
\* session.
C34_TimeConservation ==
    currentDocument # Null
       => LedgerTotal(history, Pages) + getCurrentPageDuration = getSessionDuration

C34_ConservedAcrossPause ==
    /\ currentDocument # Null
    /\ isPaused
    /\ pausedMs > 0
    /\ now > pauseStartRef
    /\ Len(history) = 2
    /\ getCurrentPageDuration > 0
    /\ lastNav.op = "pageChange"

\* C35: with a document open, what the ledger holds for a page plus, for the
\* marker's page, the live page reading is exactly the unpaused time during
\* which that page was the current page: no page is credited time spent on
\* another, also across a page change made during a pause.
C35_PerPageAttribution ==
    currentDocument # Null =>
        \A p \in Pages :
            DurationOf(history, p)
              + (IF lastPageParams.page = p THEN getCurrentPageDuration ELSE 0)
            = viewedMs[p]

\* C36: within a session the reading of the session clock never
\* decreases from one step to the next.
C36_SessionMonotone ==
    [][SameSession => (getSessionDuration' >= getSessionDuration)]_vars

C36_ReadAfterResume ==
    /\ lastNav.op = "togglePause"
    /\ ~isPaused
    /\ pausedMs > ClockStepMs
    /\ history # <<>>
    /\ getSessionDuration > 0
    /\ getSessionDuration < now - ClockStepMs

\* C38: a failed persistence request puts back the page that was current
\* before it only while the page it set is still the current one: the
\* rollback never replaces the page set by a later request, so after
\* goToPage(a), goToPage(b) with a failing and b succeeding currentPage is b.
C38_RollbackKeepsLaterRequest ==
    [][lastNav'.op = "rollback"
          => (currentPage' = currentPage \/ currentPage = lastNav'.page)]_vars

\* C40: a page with a task recorded in renderTasksRef holds the rendering
\* lock, so once an operation for a page has ended, by success or by
\* failure, no task is recorded for that page.
C40_TaskImpliesLock ==
    \A p \in Pages : renderTasksRef[p] # "none" => p \in renderingPagesRef

\* C39: the scale is always one of 0.5, 0.75, ..., 3.0; zooming in at 3.0
\* and zooming out at 0.5 change neither the scale nor the set of rendered
\* pages.
C39_ZoomClamped ==
    /\ [](scale \in Scales)
    /\ [][(ZoomIn /\ scale = MaxScale)
            => (scale' = scale /\ renderedPages' = renderedPages)]_vars
    /\ [][(ZoomOut /\ scale = MinScale)
            => (scale' = scale /\ renderedPages' = renderedPages)]_vars

\* Page 1 is still rendered right after a zoom request made at a limit.
C39_ZoomAtLimitKeptPage ==
    /\ lastNav.op = "zoom"
    /\ scale \in {MinScale, MaxScale}
    /\ 1 \in renderedPages

\* C37: when the promises a render operation awaits settle, a page that
\* holds the rendering lock is later without it: every exit of renderPage
\* (success, cancellation, other failure, no 2d context) releases the lock.
C37_LockReleased ==
    \A p \in Pages : (p \in renderingPagesRef) ~> (p \notin renderingPagesRef)

\* An operation has ended by a failure of its render and no lock is held.
C37_ReleasedAfterFailure ==
    /\ lastNav.op = "render"
    /\ procs = EmptyBag
    /\ renderingPagesRef = {}
    /\ \E p \in Pages : renderTasksRef[p] = "settled"

C32_OnePerQuietWindow ==
    /\ [](debounce.armed
             => /\ debounce.page = visiblePage
                /\ debounce.remaining + sinceDelivery >= DebounceMs)
    /\ [][lastNav'.op = "deliver"
            => (sinceDelivery >= DebounceMs /\ ~debounce'.armed)]_vars

\* A notification is pending one tick after a delivery and is not yet due.
C32_PendingAfterDelivery ==
    /\ lastNav.op = "tick"
    /\ debounce.armed
    /\ sinceDelivery = TickMs
    /\ debounce.remaining = DebounceMs - TickMs

====
